---- MODULE Spec2Model ----
(***************************************************************************)
(* Model of app.py: the Streamlit chat front end that keeps one JSON       *)
(* history file per conversation thread (chat_history/<name>.json), a      *)
(* per-session cache of the histories (st.session_state.chat_histories),   *)
(* the active-thread pointer (st.session_state.current_thread_id) and the  *)
(* two agent tabs.                                                         *)
(*                                                                         *)
(* Strings that the code takes apart (thread ids, file names, file         *)
(* contents) are sequences of tokens.  A token of a thread id or file name *)
(* is one of the characters the sanitizer looks at, or a run of other      *)
(* characters ("start-here", "chat_").  A token of a file content is one   *)
(* JSON lexeme: a punctuation, a number ("0", "1"), or a string.           *)
(***************************************************************************)
EXTENDS Naturals, Sequences, FiniteSets, TLC

VARIABLES
    files,              \* the file system: path -> content, for the paths that exist
    hash_seed,          \* the per-process salt of Python's str hash
    chat_histories,     \* st.session_state.chat_histories: thread id -> list of messages
    current_thread_id,  \* st.session_state.current_thread_id
    vuln_messages,      \* st.session_state.vuln_messages
    mitre_state,        \* position of the MITRE tab's input handler
    mitre_prompt,       \* the prompt of the MITRE dispatch in flight
    vuln_state,         \* position of the vulnerability tab's input handler
    agent_call,         \* the arguments of the last MITRE agent invocation
    new_chats,          \* number of uuid4 values drawn so far
    dispatches,         \* number of MITRE prompts accepted so far
    uncaught,           \* TRUE once an exception has left a script run uncaught
    last_load,          \* history: the last call of load_chat_history
    last_save,          \* history: the last call of save_chat_history
    loads,              \* history: thread id -> number of load_chat_history calls
    clears,             \* history: thread id -> number of clear operations
    save_status,        \* history: thread id -> outcome of its last save since its last clear
    appended,           \* history: the thread ids that received an append in this session
    stored_before,      \* history: the paths that existed when the session started
    path_calls          \* history: the calls of get_history_filepath made so far

vars == <<files, hash_seed, chat_histories, current_thread_id, vuln_messages,
          mitre_state, mitre_prompt, vuln_state, agent_call, new_chats,
          dispatches, uncaught, last_load, last_save, loads, clears,
          save_status, appended, stored_before, path_calls>>

(***************************************************************************)
(* Bounds of the model.                                                    *)
(***************************************************************************)
MaxDispatches == 1  \* MITRE prompts accepted in a session
MaxVulnMessages == 2 \* the vulnerability tab's list grows to at most this many
MaxClears == 1      \* clear operations in a session
MaxNewChats == 1    \* uuid4 values drawn by New Chat
MaxPartial == 0     \* longest partial content a failed write leaves (in tokens)
NumSeeds == 2       \* hash salts (one per process)
MaxNameLen == 3     \* longest thread id handed to the sanitizer (in tokens)

(***************************************************************************)
(* Configuration (app.py lines 11-13).                                     *)
(***************************************************************************)
HISTORY_DIR == "chat_history"
DEFAULT_THREAD_ID == <<"start-here">>
DEFAULT_USER_ID == "default-user"

Min(a, b) == IF a < b THEN a ELSE b

(***************************************************************************)
(* JSON values as Python holds them: str, number, list, dict.              *)
(***************************************************************************)
JStr(s) == [k |-> "str", v |-> s]
JNum(s) == [k |-> "num", v |-> s]
JList(items) == [k |-> "list", v |-> items]
JDict(f) == [k |-> "dict", v |-> f]
EmptyDict == [x \in {} |-> JStr("")]

Punct == {"[", "]", "{", "}", ":", ","}
NumTokens == {"0", "1"}
\* the order in which a dict's keys are written (insertion order of the
\* dict literals at lines 224 and 261; other keys after them)
KeyOrder == <<"role", "content", "extra">>

ParseFail == [ok |-> FALSE, val |-> JStr(""), nxt |-> 0]
ParseOk(val, nxt) == [ok |-> TRUE, val |-> val, nxt |-> nxt]

RECURSIVE ParseValue(_, _), ParseItems(_, _, _), ParseMembers(_, _, _)

\* one JSON value starting at token i
ParseValue(toks, i) ==
    IF i > Len(toks) THEN ParseFail
    ELSE IF toks[i] = "[" THEN
        IF i + 1 <= Len(toks) /\ toks[i + 1] = "]"
        THEN ParseOk(JList(<<>>), i + 2)
        ELSE ParseItems(toks, i + 1, <<>>)
    ELSE IF toks[i] = "{" THEN
        IF i + 1 <= Len(toks) /\ toks[i + 1] = "}"
        THEN ParseOk(JDict(EmptyDict), i + 2)
        ELSE ParseMembers(toks, i + 1, EmptyDict)
    ELSE IF toks[i] \in Punct THEN ParseFail
    ELSE IF toks[i] \in NumTokens THEN ParseOk(JNum(toks[i]), i + 1)
    ELSE ParseOk(JStr(toks[i]), i + 1)

\* the items of a list after "[" or ",": a value, then "," or "]"
ParseItems(toks, i, acc) ==
    LET r == ParseValue(toks, i) IN
    IF ~r.ok \/ r.nxt > Len(toks) THEN ParseFail
    ELSE IF toks[r.nxt] = "," THEN ParseItems(toks, r.nxt + 1, Append(acc, r.val))
    ELSE IF toks[r.nxt] = "]" THEN ParseOk(JList(Append(acc, r.val)), r.nxt + 1)
    ELSE ParseFail

\* the members of an object after "{" or ",": a string key, ":", a value,
\* then "," or "}"; a repeated key keeps its last value
ParseMembers(toks, i, acc) ==
    IF i + 1 > Len(toks) \/ toks[i] \in Punct \cup NumTokens \/ toks[i + 1] # ":"
    THEN ParseFail
    ELSE LET r == ParseValue(toks, i + 2)
             upd == [key \in DOMAIN acc \cup {toks[i]} |->
                        IF key = toks[i] THEN r.val ELSE acc[key]]
         IN IF ~r.ok \/ r.nxt > Len(toks) THEN ParseFail
            ELSE IF toks[r.nxt] = "," THEN ParseMembers(toks, r.nxt + 1, upd)
            ELSE IF toks[r.nxt] = "}" THEN ParseOk(JDict(upd), r.nxt + 1)
            ELSE ParseFail

\* json.load: the whole content must be one value; ok = FALSE is JSONDecodeError
json_load(toks) ==
    LET r == ParseValue(toks, 1) IN
    IF r.ok /\ r.nxt = Len(toks) + 1 THEN r ELSE ParseFail

RECURSIVE DumpValue(_), DumpItems(_, _), DumpMembers(_, _, _)

DumpValue(val) ==
    IF val.k = "list" THEN <<"[">> \o DumpItems(val.v, 1) \o <<"]">>
    ELSE IF val.k = "dict" THEN
        LET Has(key) == key \in DOMAIN val.v
        IN <<"{">> \o DumpMembers(val.v, SelectSeq(KeyOrder, Has), 1) \o <<"}">>
    ELSE <<val.v>>

DumpItems(items, i) ==
    IF i > Len(items) THEN <<>>
    ELSE (IF i > 1 THEN <<",">> ELSE <<>>) \o DumpValue(items[i]) \o DumpItems(items, i + 1)

DumpMembers(f, keys, i) ==
    IF i > Len(keys) THEN <<>>
    ELSE (IF i > 1 THEN <<",">> ELSE <<>>) \o <<keys[i], ":">> \o DumpValue(f[keys[i]])
         \o DumpMembers(f, keys, i + 1)

\* json.dump(messages, f, indent=2): the text written for a list of messages
json_dump(messages) == DumpValue(JList(messages))

(***************************************************************************)
(* Filename sanitizer and history store (app.py lines 21-68).              *)
(***************************************************************************)
Forbidden == {"\\", "/", "*", "?", ":", "\"", "<", ">", "|"}

\* hash(filename): Python salts str hashes per process; hash("") is 0 under
\* every salt.  The codes stand for the decimal digits of the hash.
HashCodes == <<"-7046029254386353131", "3527539", "88172645463325252", "-1">>
hash(filename, seed) ==
    IF filename = <<>> THEN "0"
    ELSE HashCodes[((seed + Len(filename)) % Len(HashCodes)) + 1]

\* sanitize_filename without the fallback of lines 25-26
sanitize_filename_no_fallback(filename, seed) ==
    LET Keep(c) == c \notin Forbidden
        stripped == SelectSeq(filename, Keep)
    IN [i \in 1..Len(stripped) |-> IF stripped[i] = " " THEN "_" ELSE stripped[i]]

\* lines 21-27
sanitize_filename(filename, seed) ==
    LET Keep(c) == c \notin Forbidden
        stripped == SelectSeq(filename, Keep)
        sanitized == [i \in 1..Len(stripped) |->
                         IF stripped[i] = " " THEN "_" ELSE stripped[i]]
    IN IF sanitized = <<>> \/ \A i \in 1..Len(sanitized) : sanitized[i] = "."
       THEN <<"invalid_thread_", hash(filename, seed)>>
       ELSE sanitized

\* lines 30-32 naming the file after the configured default id
get_history_filepath_default_id(thread_id, seed) ==
    <<HISTORY_DIR>> \o sanitize_filename(DEFAULT_THREAD_ID, seed) \o <<".json">>

\* lines 30-32
get_history_filepath(thread_id, seed) ==
    <<HISTORY_DIR>> \o sanitize_filename(thread_id, seed) \o <<".json">>

Returned(value) == [raised |-> FALSE, value |-> value]
Raised == [raised |-> TRUE, value |-> <<>>]

\* line 42-45: a list whose items are all dicts with "role" and "content"
valid_history(history) ==
    /\ history.k = "list"
    /\ \A i \in 1..Len(history.v) :
          /\ history.v[i].k = "dict"
          /\ "role" \in DOMAIN history.v[i].v
          /\ "content" \in DOMAIN history.v[i].v

\* load_chat_history without the handler of lines 55-57
load_chat_history_no_handler(thread_id, fs, seed, rd) ==
    LET filepath == get_history_filepath(thread_id, seed) IN
    IF filepath \in DOMAIN fs THEN
        IF rd # "ok" THEN Raised
        ELSE LET history == json_load(fs[filepath]) IN
             IF ~history.ok THEN Returned(<<>>)
             ELSE IF valid_history(history.val) THEN Returned(history.val.v)
             ELSE Returned(<<>>)
    ELSE Returned(<<>>)

\* rd is what the file system does to open/read: "ok" or "io_error"
load_chat_history(thread_id, fs, seed, rd) ==
    LET filepath == get_history_filepath(thread_id, seed) IN
    IF filepath \in DOMAIN fs THEN
        IF rd # "ok" THEN Returned(<<>>)                 \* except Exception
        ELSE LET history == json_load(fs[filepath]) IN
             IF ~history.ok THEN Returned(<<>>)          \* except JSONDecodeError
             ELSE IF valid_history(history.val) THEN Returned(history.val.v)
             ELSE Returned(<<>>)
    ELSE Returned(<<>>)

\* save_chat_history opening the file with mode "a" instead of "w"
save_chat_history_append_mode(thread_id, messages, fs, seed, wr) ==
    LET filepath == get_history_filepath(thread_id, seed)
        old == IF filepath \in DOMAIN fs THEN fs[filepath] ELSE <<>>
        text == json_dump(messages)
        Put(content) == [p \in DOMAIN fs \cup {filepath} |->
                            IF p = filepath THEN content ELSE fs[p]]
    IN IF wr.kind = "open_failed" THEN fs
       ELSE IF wr.kind = "write_failed"
            THEN Put(old \o SubSeq(text, 1, Min(wr.written, Len(text) - 1)))
       ELSE Put(old \o text)

\* wr is what the file system does to open/write: [kind |-> "ok"],
\* "open_failed" (open raises, nothing touched) or "write_failed" (open has
\* truncated the file and the write raises after wr.written tokens)
save_chat_history(thread_id, messages, fs, seed, wr) ==
    LET filepath == get_history_filepath(thread_id, seed)
        text == json_dump(messages)
        Put(content) == [p \in DOMAIN fs \cup {filepath} |->
                            IF p = filepath THEN content ELSE fs[p]]
    IN IF wr.kind = "open_failed" THEN fs
       ELSE IF wr.kind = "write_failed"
            THEN Put(SubSeq(text, 1, Min(wr.written, Len(text) - 1)))
       ELSE Put(text)

ReadOutcomes == {"ok", "io_error"}
WriteOutcomes ==
    {[kind |-> "ok", written |-> 0], [kind |-> "open_failed", written |-> 0]}
    \cup {[kind |-> "write_failed", written |-> n] : n \in 0..MaxPartial}

\* the message dicts of lines 224, 261, 293 and 315
Msg(role, content) == JDict([role |-> JStr(role), content |-> JStr(content)])

(***************************************************************************)
(* Helpers on the history variables.                                       *)
(***************************************************************************)
Count(f, t) == IF t \in DOMAIN f THEN f[t] ELSE 0
Total(f) == LET RECURSIVE Sum(_)
                Sum(S) == IF S = {} THEN 0
                          ELSE LET x == CHOOSE y \in S : TRUE IN f[x] + Sum(S \ {x})
            IN Sum(DOMAIN f)
With(f, t, x) == [u \in DOMAIN f \cup {t} |-> IF u = t THEN x ELSE f[u]]
Without(f, t) == [u \in DOMAIN f \ {t} |-> f[u]]

NoLoad == [called |-> FALSE, thread |-> <<>>, rd |-> "ok", existed |-> FALSE,
           content |-> <<>>, raised |-> FALSE, value |-> <<>>]
NoSave == [called |-> FALSE, thread |-> <<>>, kind |-> "ok", prev_valid |-> FALSE,
           prev |-> <<>>, messages |-> <<>>]

(***************************************************************************)
(* The session (app.py lines 89-197).                                      *)
(***************************************************************************)
UuidTokens == <<"uuid-1", "uuid-2", "uuid-3">>
\* line 103: f"chat_{uuid.uuid4()}", the n-th value drawn
new_thread_id(n) == <<"chat_", UuidTokens[n]>>

\* line 117: the names in HISTORY_DIR that end in ".json"
history_files(fs) ==
    {SubSeq(p, 2, Len(p)) : p \in {q \in DOMAIN fs :
        Len(q) >= 2 /\ q[1] = HISTORY_DIR /\ q[Len(q)] = ".json"}}
\* line 126 without the slice: the file name taken as the thread id
thread_id_from_file_whole_name(filename) == filename

\* line 126: filename[:-5]
thread_id_from_file(filename) == SubSeq(filename, 1, Len(filename) - 1)

\* lines 190-195 without the test of line 191
NeedsLoad_Always(histories, thread_id) == TRUE

\* line 191: if active_thread_id not in st.session_state.chat_histories
NeedsLoad(histories, thread_id) == thread_id \notin DOMAIN histories
\* lines 190-195: the cache after "Load History for the Current Thread"
LoadSection(histories, thread_id, fs, seed, rd) ==
    IF NeedsLoad(histories, thread_id)
    THEN With(histories, thread_id, load_chat_history(thread_id, fs, seed, rd).value)
    ELSE histories
\* the load counts after the same lines
LoadsAfter(counts, histories, thread_id) ==
    IF NeedsLoad(histories, thread_id)
    THEN With(counts, thread_id, Count(counts, thread_id) + 1)
    ELSE counts

Idle == mitre_state = "Idle" /\ vuln_state = "Idle"

\* New Chat saving the empty history it registers
NewChat_SavesEmpty ==
    /\ Idle
    /\ new_chats < MaxNewChats
    /\ LET id == new_thread_id(new_chats + 1)
           registered == With(chat_histories, id, <<>>)
       IN /\ current_thread_id' = id
          /\ chat_histories' = LoadSection(registered, id, files, hash_seed, "ok")
          /\ loads' = LoadsAfter(loads, registered, id)
          /\ files' = save_chat_history(id, <<>>, files, hash_seed,
                                        [kind |-> "ok", written |-> 0])
    /\ new_chats' = new_chats + 1
    /\ UNCHANGED <<hash_seed, vuln_messages, mitre_state, mitre_prompt,
                   vuln_state, agent_call, dispatches, uncaught, last_load,
                   last_save, clears, save_status, appended, stored_before, path_calls>>

\* lines 102-110, then the rerun's pass through lines 190-195
NewChat ==
    /\ Idle
    /\ new_chats < MaxNewChats
    /\ LET id == new_thread_id(new_chats + 1)
           registered == With(chat_histories, id, <<>>)
       IN /\ current_thread_id' = id
          /\ chat_histories' = LoadSection(registered, id, files, hash_seed, "ok")
          /\ loads' = LoadsAfter(loads, registered, id)
    /\ new_chats' = new_chats + 1
    /\ UNCHANGED <<files, hash_seed, vuln_messages, mitre_state, mitre_prompt,
                   vuln_state, agent_call, dispatches, uncaught, last_load,
                   last_save, clears, save_status, appended, stored_before, path_calls>>

\* lines 125-138 with the handler loading the selected thread itself
SwitchThread_Reloads(filename, rd) ==
    /\ Idle
    /\ filename \in history_files(files)
    /\ LET id == thread_id_from_file(filename)
       IN /\ current_thread_id' = id
          /\ chat_histories' =
               With(chat_histories, id, load_chat_history(id, files, hash_seed, rd).value)
          /\ loads' = With(loads, id, Count(loads, id) + 1)
    /\ UNCHANGED <<files, hash_seed, vuln_messages, mitre_state, mitre_prompt,
                   vuln_state, agent_call, new_chats, dispatches, uncaught,
                   last_load, last_save, clears, save_status, appended,
                   stored_before, path_calls>>

\* lines 125-138: the button of one listed file, then lines 190-195
SwitchThread(filename, rd) ==
    /\ Idle
    /\ filename \in history_files(files)
    /\ LET id == thread_id_from_file(filename)
       IN /\ current_thread_id' = id
          /\ chat_histories' = LoadSection(chat_histories, id, files, hash_seed, rd)
          /\ loads' = LoadsAfter(loads, chat_histories, id)
    /\ UNCHANGED <<files, hash_seed, vuln_messages, mitre_state, mitre_prompt,
                   vuln_state, agent_call, new_chats, dispatches, uncaught,
                   last_load, last_save, clears, save_status, appended,
                   stored_before, path_calls>>

\* lines 164-167 without the del
EvictThread_Keeps(histories, id) == histories

\* lines 164-167 and 184-185: del st.session_state.chat_histories[id]
EvictThread(histories, id) == Without(histories, id)

\* lines 168-187 without the resets of lines 175 and 186
ThreadAfterClear_Stays(id, present, removed) == id

\* the active thread after lines 168-187: the default id once the file is
\* removed (line 175) or was absent (line 186); unchanged when os.remove
\* raised (lines 177-178)
ThreadAfterClear(id, present, removed) ==
    IF present /\ ~removed THEN id ELSE DEFAULT_THREAD_ID

\* lines 160-187, then lines 190-195 (after the rerun, or in the same run when
\* os.remove raised); rm is what os.remove does: "ok" or "fails"
ClearThread(rm, rd) ==
    /\ Idle
    /\ Total(clears) < MaxClears
    /\ LET id == current_thread_id
           filepath_to_delete == get_history_filepath(id, hash_seed)
           evicted == EvictThread(chat_histories, id)
           present == filepath_to_delete \in DOMAIN files
           removed == present /\ rm = "ok"
           fs == IF removed THEN Without(files, filepath_to_delete) ELSE files
           next_id == ThreadAfterClear(id, present, removed)
       IN /\ files' = fs
          /\ current_thread_id' = next_id
          /\ chat_histories' = LoadSection(evicted, next_id, fs, hash_seed, rd)
          /\ loads' = LoadsAfter(loads, evicted, next_id)
          /\ clears' = With(clears, id, Count(clears, id) + 1)
          /\ save_status' = Without(save_status, id)
    /\ UNCHANGED <<hash_seed, vuln_messages, mitre_state, mitre_prompt, vuln_state,
                   agent_call, new_chats, dispatches, uncaught, last_load,
                   last_save, appended, stored_before, path_calls>>

(***************************************************************************)
(* MITRE tab input handler (app.py lines 216-265).  The handler is cut at  *)
(* the blocking agent call: MitreSubmit is lines 222-226, MitreInvoke the  *)
(* call of line 240, MitreAgentDone lines 245-265 and the rerun.           *)
(***************************************************************************)
\* what st.chat_input hands over: nothing ("" stands for None too) or a prompt
Prompts == {"", "p1"}
MitreResults == {[kind |-> "returns", text |-> "r1"],
                 [kind |-> "returns", text |-> ""],
                 [kind |-> "raises", text |-> "boom"]}
\* line 255: f"Sorry, an error occurred: {e}"
SorryText(e) == IF e = "boom" THEN "Sorry, an error occurred: boom"
                ELSE "Sorry, an error occurred: "
\* lines 248-255 with the except branch leaving the placeholder of line 234
assistant_message_content_placeholder(res) ==
    IF res.kind = "raises" THEN "*Thinking...*"
    ELSE IF res.text # "" THEN res.text
    ELSE "*No response generated.*"

\* lines 248-255
assistant_message_content(res) ==
    IF res.kind = "raises" THEN SorryText(res.text)
    ELSE IF res.text # "" THEN res.text
    ELSE "*No response generated.*"

\* lines 225 and 262 with insert(0, message) for append(message)
AppendMessage_Prepends(histories, thread_id, message) ==
    With(histories, thread_id, <<message>> \o histories[thread_id])

\* lines 225 and 262: current_messages.append(message); current_messages is
\* the list object held in chat_histories
AppendMessage(histories, thread_id, message) ==
    With(histories, thread_id, Append(histories[thread_id], message))
\* the save placed before the append: the last message is not written
SaveCurrent_BeforeAppend(histories, thread_id, fs, seed, wr) ==
    save_chat_history(thread_id,
                      SubSeq(histories[thread_id], 1, Len(histories[thread_id]) - 1),
                      fs, seed, wr)

\* lines 226 and 263: save_chat_history(active_thread_id, current_messages)
SaveCurrent(histories, thread_id, fs, seed, wr) ==
    save_chat_history(thread_id, histories[thread_id], fs, seed, wr)

\* lines 222-226 with save_chat_history letting the I/O error out: the script
\* run ends at line 226
MitreSubmit_AbortsOnFailedSave(prompt, wr) ==
    /\ Idle
    /\ prompt # ""
    /\ dispatches < MaxDispatches
    /\ LET id == current_thread_id
           histories == AppendMessage(chat_histories, id, Msg("user", prompt))
       IN /\ chat_histories' = histories
          /\ files' = SaveCurrent(histories, id, files, hash_seed, wr)
          /\ save_status' = With(save_status, id, wr.kind)
          /\ appended' = appended \cup {id}
    /\ IF wr.kind = "ok"
       THEN /\ mitre_state' = "UserMessageRecorded"
            /\ mitre_prompt' = prompt
            /\ UNCHANGED uncaught
       ELSE /\ uncaught' = TRUE
            /\ UNCHANGED <<mitre_state, mitre_prompt>>
    /\ dispatches' = dispatches + 1
    /\ UNCHANGED <<hash_seed, current_thread_id, vuln_messages, vuln_state,
                   agent_call, new_chats, last_load, last_save, loads,
                   clears, stored_before, path_calls>>

\* lines 222-226
MitreSubmit(prompt, wr) ==
    /\ Idle
    /\ prompt # ""                                       \* line 222
    /\ dispatches < MaxDispatches
    /\ LET id == current_thread_id
           histories == AppendMessage(chat_histories, id, Msg("user", prompt))
       IN /\ chat_histories' = histories
          /\ files' = SaveCurrent(histories, id, files, hash_seed, wr)
          /\ save_status' = With(save_status, id, wr.kind)
          /\ appended' = appended \cup {id}
    /\ mitre_state' = "UserMessageRecorded"
    /\ mitre_prompt' = prompt
    /\ dispatches' = dispatches + 1
    /\ UNCHANGED <<hash_seed, current_thread_id, vuln_messages, vuln_state,
                   agent_call, new_chats, uncaught, last_load, last_save, loads,
                   clears, stored_before, path_calls>>

\* line 240: the call is in flight until the agent returns or raises
MitreInvoke ==
    /\ mitre_state = "UserMessageRecorded"
    /\ mitre_state' = "AwaitingAgentResponse"
    /\ agent_call' = <<mitre_prompt, current_thread_id, DEFAULT_USER_ID>>
    /\ UNCHANGED <<files, hash_seed, chat_histories, current_thread_id,
                   vuln_messages, mitre_prompt, vuln_state, new_chats, dispatches,
                   uncaught, last_load, last_save, loads, clears, save_status,
                   appended, stored_before, path_calls>>

\* lines 245-265 with the except branch leaving the handler without the
\* append and save of lines 261-263
MitreAgentDone_DropsFailure(res, wr) ==
    /\ mitre_state = "AwaitingAgentResponse"
    /\ LET id == current_thread_id
           content == assistant_message_content(res)
           histories == IF res.kind = "raises" THEN chat_histories
                        ELSE AppendMessage(chat_histories, id, Msg("assistant", content))
           fs == IF res.kind = "raises" THEN files
                 ELSE SaveCurrent(histories, id, files, hash_seed, wr)
       IN /\ files' = fs
          /\ chat_histories' = LoadSection(histories, id, fs, hash_seed, "ok")
          /\ loads' = LoadsAfter(loads, histories, id)
          /\ save_status' = IF res.kind = "raises" THEN save_status
                            ELSE With(save_status, id, wr.kind)
          /\ appended' = appended \cup {id}
    /\ mitre_state' = "Idle"
    /\ mitre_prompt' = ""
    /\ agent_call' = <<>>
    /\ UNCHANGED <<hash_seed, current_thread_id, vuln_messages, vuln_state,
                   new_chats, dispatches, uncaught, last_load, last_save, clears,
                   stored_before, path_calls>>

\* lines 245-265, then the rerun's pass through lines 190-195
MitreAgentDone(res, wr) ==
    /\ mitre_state = "AwaitingAgentResponse"
    /\ LET id == current_thread_id
           content == assistant_message_content(res)
           histories == AppendMessage(chat_histories, id, Msg("assistant", content))
           fs == SaveCurrent(histories, id, files, hash_seed, wr)
       IN /\ files' = fs
          /\ chat_histories' = LoadSection(histories, id, fs, hash_seed, "ok")
          /\ loads' = LoadsAfter(loads, histories, id)
          /\ save_status' = With(save_status, id, wr.kind)
          /\ appended' = appended \cup {id}
    /\ mitre_state' = "Idle"
    /\ mitre_prompt' = ""
    /\ agent_call' = <<>>
    /\ UNCHANGED <<hash_seed, current_thread_id, vuln_messages, vuln_state,
                   new_chats, dispatches, uncaught, last_load, last_save, clears,
                   stored_before, path_calls>>

(***************************************************************************)
(* Vulnerability tab input handler (app.py lines 278-318), cut at the      *)
(* agent call of line 301.                                                 *)
(***************************************************************************)
VulnPrompts == {"", "v1"}
VulnResults ==
    {[kind |-> "returns", messages |-> <<[type |-> "human", content |-> "v1"],
                                         [type |-> "ai", content |-> "fix"]>>],
     [kind |-> "returns", messages |-> <<[type |-> "ai", content |-> "plan"],
                                         [type |-> "ai", content |-> "fix"]>>],
     [kind |-> "returns", messages |-> <<[type |-> "human", content |-> "v1"]>>],
     [kind |-> "returns", messages |-> <<>>],
     [kind |-> "raises", messages |-> <<>>]}
\* lines 305-311: the content of the last message of type "ai"; "" stands for
\* None as well (line 313 treats both alike)
ai_response(messages) ==
    LET IsAi(m) == m.type = "ai"
        ais == SelectSeq(messages, IsAi)
    IN IF ais = <<>> THEN "" ELSE ais[Len(ais)].content

\* lines 291-295 appending to the active thread's list and saving it, as the
\* MITRE tab does
VulnSubmit_UsesThread(prompt) ==
    /\ Idle
    /\ prompt # ""
    /\ Len(vuln_messages) + 2 <= MaxVulnMessages
    /\ LET id == current_thread_id
           histories == AppendMessage(chat_histories, id, Msg("user", prompt))
       IN /\ chat_histories' = histories
          /\ files' = SaveCurrent(histories, id, files, hash_seed,
                                  [kind |-> "ok", written |-> 0])
    /\ vuln_messages' = Append(vuln_messages, Msg("user", prompt))
    /\ vuln_state' = "AwaitingAgentResponse"
    /\ UNCHANGED <<hash_seed, current_thread_id, mitre_state,
                   mitre_prompt, agent_call, new_chats, dispatches, uncaught,
                   last_load, last_save, loads, clears, save_status, appended,
                   stored_before, path_calls>>

\* lines 291-295
VulnSubmit(prompt) ==
    /\ Idle
    /\ prompt # ""                                       \* line 291
    /\ Len(vuln_messages) + 2 <= MaxVulnMessages
    /\ vuln_messages' = Append(vuln_messages, Msg("user", prompt))
    /\ vuln_state' = "AwaitingAgentResponse"
    /\ UNCHANGED <<files, hash_seed, chat_histories, current_thread_id, mitre_state,
                   mitre_prompt, agent_call, new_chats, dispatches, uncaught,
                   last_load, last_save, loads, clears, save_status, appended,
                   stored_before, path_calls>>

\* line 301 has no handler around it: an exception ends the script run
VulnAgentDone(res) ==
    /\ vuln_state = "AwaitingAgentResponse"
    /\ IF res.kind = "raises"
       THEN /\ uncaught' = TRUE
            /\ UNCHANGED vuln_messages
       ELSE /\ UNCHANGED uncaught
            /\ vuln_messages' =
                 IF ai_response(res.messages) # ""
                 THEN Append(vuln_messages, Msg("assistant", ai_response(res.messages)))
                 ELSE vuln_messages
    /\ vuln_state' = "Idle"
    /\ UNCHANGED <<files, hash_seed, chat_histories, current_thread_id, mitre_state,
                   mitre_prompt, agent_call, new_chats, dispatches, last_load,
                   last_save, loads, clears, save_status, appended, stored_before, path_calls>>

(***************************************************************************)
(* The session: files left by earlier sessions, then the first script run. *)
(***************************************************************************)
OLD_THREAD_ID == <<"chat_", "uuid-0">>
StoredHistory == <<Msg("user", "q0"), Msg("assistant", "a0")>>
\* what an earlier session can have left in a file: a saved history, or the
\* start of one (a write that failed)
InitialContents == {json_dump(StoredHistory), <<"[">>}
InitialFileSystems ==
    UNION {[S -> InitialContents] :
           S \in SUBSET {get_history_filepath(DEFAULT_THREAD_ID, 1),
                         get_history_filepath(OLD_THREAD_ID, 1)}}

Init ==
    /\ files \in InitialFileSystems
    /\ stored_before = DOMAIN files
    /\ hash_seed \in 1..NumSeeds
    /\ current_thread_id = DEFAULT_THREAD_ID
    /\ \E rd \in ReadOutcomes :
         chat_histories = LoadSection(<<>>, DEFAULT_THREAD_ID, files, hash_seed, rd)
    /\ loads = LoadsAfter(<<>>, <<>>, DEFAULT_THREAD_ID)
    /\ vuln_messages = <<>>
    /\ mitre_state = "Idle"
    /\ mitre_prompt = ""
    /\ vuln_state = "Idle"
    /\ agent_call = <<>>
    /\ new_chats = 0
    /\ dispatches = 0
    /\ uncaught = FALSE
    /\ last_load = NoLoad
    /\ last_save = NoSave
    /\ clears = <<>>
    /\ save_status = <<>>
    /\ appended = {}
    /\ path_calls = {}

Next ==
    \/ NewChat
    \/ \E filename \in history_files(files), rd \in ReadOutcomes :
         SwitchThread(filename, rd)
    \/ \E rm \in {"ok", "fails"}, rd \in ReadOutcomes : ClearThread(rm, rd)
    \/ \E prompt \in Prompts, wr \in WriteOutcomes : MitreSubmit(prompt, wr)
    \/ MitreInvoke
    \/ \E res \in MitreResults, wr \in WriteOutcomes : MitreAgentDone(res, wr)
    \/ \E prompt \in VulnPrompts : VulnSubmit(prompt)
    \/ \E res \in VulnResults : VulnAgentDone(res)

Spec == Init /\ [][Next]_vars

\* the agent returns or raises
MitreAgentReturns == \E res \in MitreResults, wr \in WriteOutcomes : MitreAgentDone(res, wr)
\* The session with its scheduling: a script run goes on to the agent call of
\* line 240 (the handler is straight-line code), and the agent call comes
\* back, with a result or an exception.
SpecLive == Spec /\ WF_vars(MitreInvoke) /\ WF_vars(MitreAgentReturns)

(***************************************************************************)
(* The session over a directory that holds files of earlier processes      *)
(* saved under free-form thread ids: their names are values of             *)
(* sanitize_filename, fallback names under the writer's salt included.     *)
(***************************************************************************)
EarlierThreads == {<<"my", " ", "chat", "?">>, <<"?">>, <<>>}
WrittenPaths ==
    {get_history_filepath(t, seed) : t \in EarlierThreads, seed \in 1..NumSeeds}
\* one such file, or the first two together
ListingFileSystems ==
    UNION {[S -> {json_dump(StoredHistory)}] :
        S \in {{p} : p \in WrittenPaths}
              \cup {{get_history_filepath(<<"my", " ", "chat", "?">>, 1),
                     get_history_filepath(<<"?">>, 1)}}}

InitListing ==
    /\ files \in ListingFileSystems
    /\ stored_before = DOMAIN files
    /\ hash_seed \in 1..NumSeeds
    /\ current_thread_id = DEFAULT_THREAD_ID
    /\ \E rd \in ReadOutcomes :
         chat_histories = LoadSection(<<>>, DEFAULT_THREAD_ID, files, hash_seed, rd)
    /\ loads = LoadsAfter(<<>>, <<>>, DEFAULT_THREAD_ID)
    /\ vuln_messages = <<>>
    /\ mitre_state = "Idle"
    /\ mitre_prompt = ""
    /\ vuln_state = "Idle"
    /\ agent_call = <<>>
    /\ new_chats = 0
    /\ dispatches = 0
    /\ uncaught = FALSE
    /\ last_load = NoLoad
    /\ last_save = NoSave
    /\ clears = <<>>
    /\ save_status = <<>>
    /\ appended = {}
    /\ path_calls = {}

SpecListing == InitListing /\ [][Next]_vars

(***************************************************************************)
(* The history store on its own: load_chat_history and save_chat_history   *)
(* applied to one thread's file, for every content the file can hold.      *)
(***************************************************************************)
StoreThreads == {DEFAULT_THREAD_ID, <<"my", " ", "chat", "?">>}
ExtraMsg == JDict([role |-> JStr("user"), content |-> JStr("p1"), extra |-> JNum("1")])
StoreMessages == {<<>>, <<Msg("user", "p1")>>,
                  <<Msg("user", "p1"), Msg("assistant", "r1")>>,
                  <<ExtraMsg, Msg("assistant", "")>>}
\* texts of single JSON values: messages, objects that are no messages, and
\* values that are no objects
ItemTexts == {DumpValue(Msg("user", "p1")), DumpValue(Msg("assistant", "r1")),
              DumpValue(ExtraMsg),
              <<"{", "role", ":", "user", ",", "content", ":", "1", "}">>,
              <<"{", "role", ":", "user", "}">>,
              <<"{", "content", ":", "p1", "}">>,
              <<"{", "}">>, <<"1">>, <<"p1">>, <<"[", "]">>}
ListTexts == {<<"[", "]">>}
             \cup {<<"[">> \o a \o <<"]">> : a \in ItemTexts}
             \cup {<<"[">> \o a \o <<",">> \o b \o <<"]">> : a, b \in ItemTexts}
BrokenTexts == {<<>>, <<"[">>, <<"]">>, <<"[", "{">>, <<"[", ",", "]">>,
                <<"[", "p1", ",", "]">>, <<"[", "]", "[", "]">>,
                <<"[", "{", "role", "user", "}", "]">>,
                <<"[", "{", "1", ":", "user", "}", "]">>,
                <<"[", "{", "role", ":", "user", ",", "content", ":", "p1", "}">>,
                <<"{", "role", ":", "user", ",", "}">>, <<":">>}
StoreContents == ItemTexts \cup ListTexts \cup BrokenTexts

InitStore ==
    /\ hash_seed \in 1..NumSeeds
    /\ \E t \in StoreThreads :
         /\ current_thread_id = t
         /\ files \in {<<>>} \cup [{get_history_filepath(t, hash_seed)} -> StoreContents]
    /\ stored_before = DOMAIN files
    /\ chat_histories = <<>>
    /\ loads = <<>>
    /\ vuln_messages = <<>>
    /\ mitre_state = "Idle"
    /\ mitre_prompt = ""
    /\ vuln_state = "Idle"
    /\ agent_call = <<>>
    /\ new_chats = 0
    /\ dispatches = 0
    /\ uncaught = FALSE
    /\ last_load = NoLoad
    /\ last_save = NoSave
    /\ clears = <<>>
    /\ save_status = <<>>
    /\ appended = {}
    /\ path_calls = {}

\* a call load_chat_history(current_thread_id)
StoreLoad(rd) ==
    /\ LET t == current_thread_id
           filepath == get_history_filepath(t, hash_seed)
           got == load_chat_history(t, files, hash_seed, rd)
       IN last_load' = [called |-> TRUE, thread |-> t, rd |-> rd,
                        existed |-> filepath \in DOMAIN files,
                        content |-> IF filepath \in DOMAIN files
                                    THEN files[filepath] ELSE <<>>,
                        raised |-> got.raised, value |-> got.value]
    /\ UNCHANGED <<files, hash_seed, chat_histories, current_thread_id,
                   vuln_messages, mitre_state, mitre_prompt, vuln_state, agent_call,
                   new_chats, dispatches, uncaught, last_save, loads, clears,
                   save_status, appended, stored_before, path_calls>>

\* a call save_chat_history(current_thread_id, messages)
StoreSave(messages, wr) ==
    /\ LET t == current_thread_id
           filepath == get_history_filepath(t, hash_seed)
       IN /\ files' = save_chat_history(t, messages, files, hash_seed, wr)
          /\ last_save' =
               [called |-> TRUE, thread |-> t, kind |-> wr.kind,
                prev_valid |-> /\ filepath \in DOMAIN files
                               /\ json_load(files[filepath]).ok
                               /\ valid_history(json_load(files[filepath]).val),
                prev |-> load_chat_history(t, files, hash_seed, "ok").value,
                messages |-> messages]
    /\ last_load' = NoLoad
    /\ UNCHANGED <<hash_seed, chat_histories, current_thread_id, vuln_messages,
                   mitre_state, mitre_prompt, vuln_state, agent_call, new_chats,
                   dispatches, uncaught, loads, clears, save_status, appended,
                   stored_before, path_calls>>

NextStore ==
    \/ \E rd \in ReadOutcomes : StoreLoad(rd)
    \/ \E messages \in StoreMessages, wr \in WriteOutcomes : StoreSave(messages, wr)

SpecStore == InitStore /\ [][NextStore]_vars

(***************************************************************************)
(* The sanitizer and the path mapping on their own: get_history_filepath   *)
(* applied to one thread id, in one process after another.  Each process   *)
(* has its own salt for hash().                                            *)
(***************************************************************************)
\* the characters of a thread id: the ones the sanitizer treats specially
\* and two others
PathAlphabet == Forbidden \cup {" ", ".", "_", "a"}
PathInputs == UNION {[1..n -> PathAlphabet] : n \in 0..MaxNameLen}

InitPath ==
    /\ current_thread_id \in PathInputs
    /\ hash_seed \in 1..NumSeeds
    /\ path_calls = {}
    /\ files = <<>>
    /\ stored_before = {}
    /\ chat_histories = <<>>
    /\ loads = <<>>
    /\ vuln_messages = <<>>
    /\ mitre_state = "Idle"
    /\ mitre_prompt = ""
    /\ vuln_state = "Idle"
    /\ agent_call = <<>>
    /\ new_chats = 0
    /\ dispatches = 0
    /\ uncaught = FALSE
    /\ last_load = NoLoad
    /\ last_save = NoSave
    /\ clears = <<>>
    /\ save_status = <<>>
    /\ appended = {}

\* a call get_history_filepath(current_thread_id) in the running process
PathCall ==
    /\ path_calls' = path_calls \cup
         {[seed |-> hash_seed,
           name |-> sanitize_filename(current_thread_id, hash_seed),
           path |-> get_history_filepath(current_thread_id, hash_seed)]}
    /\ UNCHANGED <<files, hash_seed, chat_histories, current_thread_id,
                   vuln_messages, mitre_state, mitre_prompt, vuln_state, agent_call,
                   new_chats, dispatches, uncaught, last_load, last_save, loads,
                   clears, save_status, appended, stored_before>>

\* the process ends and a new one starts: hash() gets the new process's salt
Restart(seed) ==
    /\ hash_seed' = seed
    /\ UNCHANGED <<files, chat_histories, current_thread_id, vuln_messages,
                   mitre_state, mitre_prompt, vuln_state, agent_call, new_chats,
                   dispatches, uncaught, last_load, last_save, loads, clears,
                   save_status, appended, stored_before, path_calls>>

NextPath ==
    \/ PathCall
    \/ \E seed \in 1..NumSeeds : Restart(seed)

SpecPath == InitPath /\ [][NextPath]_vars

(***************************************************************************)
(* The claims.                                                             *)
(***************************************************************************)
FilePath(t) == get_history_filepath(t, hash_seed)
\* the history a load of t's file returns when the read itself succeeds
Persisted(t) == load_chat_history(t, files, hash_seed, "ok").value
LastMessages(history, n) ==
    IF Len(history) < n THEN history
    ELSE SubSeq(history, Len(history) + 1 - n, Len(history))
RoleOf(message) == message.v["role"].v
ContentOf(message) == message.v["content"].v
\* t's file holds exactly the text of t's cached sequence
FileHoldsCache(t) ==
    /\ t \in DOMAIN chat_histories
    /\ FilePath(t) \in DOMAIN files
    /\ files[FilePath(t)] = json_dump(chat_histories[t])

C2_Transitions == {<<"Idle", "UserMessageRecorded">>,
                   <<"UserMessageRecorded", "AwaitingAgentResponse">>,
                   <<"AwaitingAgentResponse", "Idle">>}
\* while a dispatch is in flight the prompt is not empty, the user message is
\* the last of the thread (and persisted, when saved says so), and the agent
\* is called with (prompt, active thread id, fixed user id)
C2_InFlight(saved) ==
    mitre_state # "Idle" =>
        LET t == current_thread_id IN
        /\ mitre_prompt # ""
        /\ LastMessages(chat_histories[t], 1) = <<Msg("user", mitre_prompt)>>
        /\ saved => Persisted(t) = chat_histories[t]
        /\ mitre_state = "AwaitingAgentResponse"
             => agent_call = <<mitre_prompt, t, DEFAULT_USER_ID>>
\* the end of a dispatch appends exactly one assistant message (the reply, or
\* the error surrogate) directly after the user message, to the same thread,
\* and (when saved says so) the persisted thread ends with the two
C2_Done(res, saved) ==
    LET t == current_thread_id
        last == chat_histories'[t][Len(chat_histories'[t])]
    IN /\ current_thread_id' = t
       /\ Len(chat_histories'[t]) = Len(chat_histories[t]) + 1
       /\ LastMessages(chat_histories'[t], 2)[1] = Msg("user", mitre_prompt)
       /\ RoleOf(last) = "assistant"
       /\ res.kind = "raises" => ContentOf(last) = SorryText(res.text)
       /\ (res.kind = "returns" /\ res.text # "") => ContentOf(last) = res.text
       /\ saved =>
            LastMessages(load_chat_history(t, files', hash_seed, "ok").value, 2)
              = LastMessages(chat_histories'[t], 2)

C3_AgentFailuresCaught ==
    /\ ~uncaught
    /\ vuln_state = "Idle" =>
         (vuln_messages = <<>> \/ RoleOf(vuln_messages[Len(vuln_messages)]) # "user")
    /\ mitre_state = "Idle" =>
         \A t \in appended \cap DOMAIN chat_histories :
            chat_histories[t] = <<>>
            \/ RoleOf(chat_histories[t][Len(chat_histories[t])]) # "user"

\* getOrLoad(t) in the state a step leads to returns an empty sequence,
\* whatever the read of the file does
NextGetOrLoadIsEmpty(t) ==
    \A rd \in ReadOutcomes :
        LoadSection(chat_histories', t, files', hash_seed, rd)[t] = <<>>
\* the clear of the active thread t meets t's file and os.remove raises
RemoveFails(rm) == FilePath(current_thread_id) \in DOMAIN files /\ rm = "fails"
C4_Cleared(rm, every_outcome) ==
    LET t == current_thread_id IN
    IF every_outcome \/ ~RemoveFails(rm)
    THEN FilePath(t) \notin DOMAIN files' /\ NextGetOrLoadIsEmpty(t)
    ELSE files' = files

\* C4 as stated: after the clear of thread t, in every outcome (file removed,
\* file absent, removal failing), t's file does not exist and the next
\* getOrLoad(t) returns an empty sequence.
C4_DeletedInEveryOutcome ==
    [][Total(clears') > Total(clears) =>
         \A rm \in {"ok", "fails"}, rd \in ReadOutcomes :
            ClearThread(rm, rd) => C4_Cleared(rm, TRUE)]_vars

\* C4 amended: after the clear of thread t with the file removed or found
\* absent, t's file does not exist and the next getOrLoad(t) returns an empty
\* sequence; when removing the file fails, the files on disk are unchanged.
C4_DeletedUnlessRemoveFails ==
    [][Total(clears') > Total(clears) =>
         \A rm \in {"ok", "fails"}, rd \in ReadOutcomes :
            ClearThread(rm, rd) => C4_Cleared(rm, FALSE)]_vars

C4_Witness ==
    /\ Count(clears, OLD_THREAD_ID) > 0
    /\ FilePath(OLD_THREAD_ID) \in stored_before
    /\ FilePath(OLD_THREAD_ID) \notin DOMAIN files
    /\ OLD_THREAD_ID \notin DOMAIN chat_histories

\* t's former entry is gone from the cache a step leads to: t has no entry, or
\* t is the default thread, active again, with the empty sequence the load of
\* its missing file returned
EvictedNext(t) ==
    \/ t \notin DOMAIN chat_histories'
    \/ t = DEFAULT_THREAD_ID /\ chat_histories'[t] = <<>>
C5_Cleared(rm, rd, every_outcome) ==
    LET t == current_thread_id IN
    IF every_outcome \/ ~RemoveFails(rm)
    THEN current_thread_id' = DEFAULT_THREAD_ID /\ EvictedNext(t)
    ELSE /\ current_thread_id' = t
         /\ t \in DOMAIN chat_histories'
         /\ chat_histories'[t] = load_chat_history(t, files', hash_seed, rd).value

\* C5 as stated: after the clear of thread t, t's entry is evicted from the
\* cache and the active-thread pointer is the default id, also when t's file
\* was absent and when removing the file fails.
C5_EvictedAndResetInEveryOutcome ==
    [][Total(clears') > Total(clears) =>
         \A rm \in {"ok", "fails"}, rd \in ReadOutcomes :
            ClearThread(rm, rd) => C5_Cleared(rm, rd, TRUE)]_vars

\* C5 amended: the same when t's file was removed or absent; when removing
\* the file fails, the active-thread pointer stays on t and t's entry is
\* filled again from the file that is still on disk.
C5_EvictedAndResetUnlessRemoveFails ==
    [][Total(clears') > Total(clears) =>
         \A rm \in {"ok", "fails"}, rd \in ReadOutcomes :
            ClearThread(rm, rd) => C5_Cleared(rm, rd, FALSE)]_vars

C5_Witness ==
    /\ Count(clears, OLD_THREAD_ID) > 0
    /\ current_thread_id = DEFAULT_THREAD_ID
    /\ OLD_THREAD_ID \in appended
    /\ OLD_THREAD_ID \notin DOMAIN chat_histories

\* the text is an empty JSON array
IsEmptyArray(text) ==
    LET doc == json_load(text)
    IN doc.ok /\ doc.val.k = "list" /\ Len(doc.val.v) = 0

\* C6: New Chat registers an empty sequence under a fresh id, makes it the
\* active thread and writes no file; every file on disk was there before the
\* session or belongs to a thread a message was appended to; and no write
\* leaves a file holding an empty message array.
C6_LazyPersistence ==
    /\ [](\A p \in DOMAIN files :
            p \in stored_before \/ \E t \in appended : p = FilePath(t))
    /\ [][/\ NewChat =>
               /\ files' = files
               /\ current_thread_id' \notin DOMAIN chat_histories
               /\ current_thread_id' \in DOMAIN chat_histories'
               /\ chat_histories'[current_thread_id'] = <<>>
          /\ \A p \in DOMAIN files' :
               (p \notin DOMAIN files \/ files'[p] # files[p])
                  => ~IsEmptyArray(files'[p])]_vars

C6_Witness ==
    /\ new_chats > 0
    /\ current_thread_id # new_thread_id(1)
    /\ new_thread_id(1) \in DOMAIN chat_histories
    /\ chat_histories[new_thread_id(1)] = <<>>
    /\ FilePath(new_thread_id(1)) \notin DOMAIN files

\* C7 as stated: load_chat_history runs at most once per thread id in a
\* session.
C7_AtMostOneLoad == \A t \in DOMAIN loads : loads[t] <= 1

\* C7 amended: load_chat_history runs at most once per thread id between two
\* clears of that thread (the clear evicts the entry and the next access
\* reads the file again), and never for a thread New Chat registered unless
\* it was cleared.
C7_AtMostOneLoadBetweenClears ==
    /\ \A t \in DOMAIN loads : loads[t] <= 1 + Count(clears, t)
    /\ \A n \in 1..new_chats :
         Count(loads, new_thread_id(n)) <= Count(clears, new_thread_id(n))

C7_Witness ==
    /\ Idle
    /\ current_thread_id = OLD_THREAD_ID
    /\ OLD_THREAD_ID \in appended
    /\ Count(loads, OLD_THREAD_ID) = 1
    /\ Count(loads, DEFAULT_THREAD_ID) = 1

\* a JSON value that is an array of objects each having a role and a content
IsMessageArray(val) ==
    /\ val.k = "list"
    /\ {i \in DOMAIN val.v :
          IF val.v[i].k = "dict"
          THEN ~({"role", "content"} \subseteq DOMAIN val.v[i].v)
          ELSE TRUE} = {}

\* C8: load_chat_history never raises; it returns the stored sequence when
\* the file exists, is read without I/O error and holds a JSON array of
\* objects each with a role and a content, and an empty sequence in every
\* other case (file absent, invalid JSON, another shape, I/O error).
C8_LoadNeverRaises ==
    last_load.called =>
        LET doc == json_load(last_load.content)
            stored == /\ last_load.existed
                      /\ last_load.rd = "ok"
                      /\ doc.ok
                      /\ IsMessageArray(doc.val)
        IN /\ ~last_load.raised
           /\ stored => last_load.value = doc.val.v
           /\ ~stored => last_load.value = <<>>

C8_Witness ==
    /\ last_load.called
    /\ last_load.existed
    /\ last_load.rd = "ok"
    /\ last_load.content = <<"[", "{", "role", ":", "user", "}", "]">>
    /\ ~last_load.raised
    /\ last_load.value = <<>>

\* C9 as stated: when a save of thread t fails (at open or part-way through
\* the write) and t's file held a valid history before, the file still holds
\* it: a later load(t) returns that history.
C9_FailedSaveKeepsFile ==
    (last_save.called /\ last_save.kind # "ok" /\ last_save.prev_valid) =>
        load_chat_history(last_save.thread, files, hash_seed, "ok").value
          = last_save.prev

\* C10 as stated: when save(t, m) succeeds, a following load(t) with no write
\* in between returns m.
C10_RoundTripAlways ==
    (last_save.called /\ last_save.kind = "ok" /\ last_load.called) =>
        last_load.value = last_save.messages

\* C10 amended: when save(t, m) succeeds, a following load(t) with no write
\* in between whose read meets no I/O error returns m.
C10_RoundTripWhenRead ==
    (last_save.called /\ last_save.kind = "ok" /\ last_load.called
        /\ last_load.rd = "ok") =>
        last_load.value = last_save.messages

C10_Witness ==
    /\ last_save.called /\ last_save.kind = "ok"
    /\ last_load.called /\ last_load.rd = "ok"
    /\ last_save.thread = <<"my", " ", "chat", "?">>
    /\ Len(last_save.messages) = 2
    /\ last_load.value = last_save.messages

\* the characters of s that are not forbidden, in their order
RECURSIVE Stripped(_)
Stripped(s) ==
    IF s = <<>> THEN <<>>
    ELSE (IF Head(s) \in Forbidden THEN <<>> ELSE <<Head(s)>>) \o Stripped(Tail(s))
OnlyDots(s) == \A i \in 1..Len(s) : s[i] = "."

\* C11: for every string s, sanitize(s) is a non-empty string that is not made
\* only of dots and holds no forbidden character and no space; it is s without
\* its forbidden characters and with "_" for every space, unless that is
\* empty or dots only, and then it starts with invalid_thread_.
C11_SanitizeTotalAndSafe ==
    \A c \in path_calls :
        LET s == current_thread_id
            kept == Stripped(s)
        IN /\ c.name # <<>>
           /\ ~OnlyDots(c.name)
           /\ \A i \in 1..Len(c.name) : c.name[i] \notin Forbidden \cup {" ", ""}
           /\ IF kept = <<>> \/ OnlyDots(kept)
              THEN c.name[1] = "invalid_thread_"
              ELSE /\ Len(c.name) = Len(kept)
                   /\ \A i \in 1..Len(kept) :
                        c.name[i] = IF kept[i] = " " THEN "_" ELSE kept[i]

C11_Witness ==
    /\ current_thread_id = <<"?", ".", "/">>
    /\ \E c \in path_calls :
         c.name[1] = "invalid_thread_" /\ c.path[Len(c.path)] = ".json"

\* C12 as stated: the same thread id maps to the same file path on every
\* call, in one process and from one process to the next, also for the ids
\* that take the fallback name.
C12_SamePathOnEveryCall ==
    \A c, d \in path_calls : c.path = d.path

SaveFailed(wr) == wr.kind # "ok"
\* the two messages of the dispatch of prompt, in this order, end t's cached
\* sequence
EndsWithExchange(t, prompt) ==
    /\ Len(chat_histories[t]) >= 2
    /\ LastMessages(chat_histories[t], 2)[1] = Msg("user", prompt)
    /\ RoleOf(LastMessages(chat_histories[t], 2)[2]) = "assistant"

\* C13: a save that fails during a MITRE dispatch does not raise and does not
\* end the interaction: after a failed save of the user message the handler
\* is at the agent call with the message in the cache, the agent is then
\* invoked, and the end of the dispatch appends the assistant message to the
\* cache and returns to Idle, also when the save of that message fails.
C13_FailedSaveDoesNotAbort ==
    /\ [][/\ mitre_state = "Idle" =>
               \A prompt \in Prompts, wr \in WriteOutcomes :
                  (SaveFailed(wr) /\ MitreSubmit(prompt, wr)) =>
                     /\ mitre_state' = "UserMessageRecorded"
                     /\ uncaught' = uncaught
                     /\ LastMessages(chat_histories'[current_thread_id], 1)
                          = <<Msg("user", prompt)>>
          /\ mitre_state = "AwaitingAgentResponse" =>
               \A res \in MitreResults, wr \in WriteOutcomes :
                  (SaveFailed(wr) /\ MitreAgentDone(res, wr)) =>
                     /\ mitre_state' = "Idle"
                     /\ uncaught' = uncaught
                     /\ chat_histories'[current_thread_id]
                          = Append(chat_histories[current_thread_id],
                                   Msg("assistant", assistant_message_content(res)))]_vars
    /\ \A p \in Prompts \ {""} :
         (/\ mitre_state = "UserMessageRecorded"
          /\ mitre_prompt = p
          /\ save_status[current_thread_id] # "ok")
            ~> (mitre_state = "AwaitingAgentResponse"
                /\ agent_call = <<p, current_thread_id, DEFAULT_USER_ID>>)
    /\ \A p \in Prompts \ {""} :
         (/\ mitre_state = "AwaitingAgentResponse"
          /\ mitre_prompt = p
          /\ save_status[current_thread_id] # "ok")
            ~> (mitre_state = "Idle" /\ EndsWithExchange(current_thread_id, p))

C13_Witness ==
    /\ Idle
    /\ dispatches > 0
    /\ Total(clears) = 0
    /\ \E t \in appended :
         /\ save_status[t] = "open_failed"
         /\ FilePath(t) \notin DOMAIN files
         /\ EndsWithExchange(t, "p1")

\* every entry of the cache is in the cache a step leads to, unchanged
CacheEntriesKept ==
    \A u \in DOMAIN chat_histories :
        u \in DOMAIN chat_histories' /\ chat_histories'[u] = chat_histories[u]

\* C14: selecting a listed thread t sets the active-thread pointer to t and
\* changes neither a cached sequence nor a file; the handler loads nothing:
\* a cached t is not read again, and a t that is not cached gets its entry
\* from the one load of the next access; selecting the active thread changes
\* nothing at all.
C14_SwitchChangesOnlyPointer ==
    [][\A filename \in history_files(files), rd \in ReadOutcomes :
          SwitchThread(filename, rd) =>
             LET t == thread_id_from_file(filename) IN
             /\ current_thread_id' = t
             /\ files' = files
             /\ CacheEntriesKept
             /\ DOMAIN chat_histories' = DOMAIN chat_histories \cup {t}
             /\ \A u \in DOMAIN loads' \ {t} : loads'[u] = Count(loads, u)
             /\ Count(loads', t) =
                  Count(loads, t) + (IF t \in DOMAIN chat_histories THEN 0 ELSE 1)
             /\ t \notin DOMAIN chat_histories =>
                  chat_histories'[t] = load_chat_history(t, files, hash_seed, rd).value
             /\ vuln_messages' = vuln_messages
             /\ t = current_thread_id => UNCHANGED vars]_vars

\* the session went over to a stored thread and loaded it, leaving behind a
\* thread whose cached sequence is ahead of its file
C14_Witness ==
    /\ Idle
    /\ current_thread_id = OLD_THREAD_ID
    /\ chat_histories[OLD_THREAD_ID] = StoredHistory
    /\ Count(loads, OLD_THREAD_ID) = 1
    /\ Count(loads, DEFAULT_THREAD_ID) = 1
    /\ Total(clears) = 0
    /\ DEFAULT_THREAD_ID \in appended
    /\ Persisted(DEFAULT_THREAD_ID) # chat_histories[DEFAULT_THREAD_ID]

IsPrefix(a, b) == Len(a) <= Len(b) /\ SubSeq(b, 1, Len(a)) = a

\* C15: between clears of thread t, t's cached sequence only grows at its
\* end: in every step that is no clear of t the entry of t stays in the cache
\* and its former value is a prefix of the new one, longer by at most one
\* message.
C15_AppendOnly ==
    [][\A t \in DOMAIN chat_histories :
          Count(clears', t) = Count(clears, t) =>
             /\ t \in DOMAIN chat_histories'
             /\ IsPrefix(chat_histories[t], chat_histories'[t])
             /\ Len(chat_histories'[t]) <= Len(chat_histories[t]) + 1]_vars

C15_Witness ==
    /\ Idle
    /\ Total(clears) = 0
    /\ new_chats > 0
    /\ current_thread_id # OLD_THREAD_ID
    /\ OLD_THREAD_ID \in appended
    /\ Len(chat_histories[OLD_THREAD_ID]) = Len(StoredHistory) + 2
    /\ IsPrefix(StoredHistory, chat_histories[OLD_THREAD_ID])

\* what the vulnerability tab's prompts and replies are made of
VulnTexts == (VulnPrompts \ {""})
             \cup {res.messages[i].content : i \in 1..2, res \in
                     {r \in VulnResults : Len(r.messages) = 2}}
\* a step of the vulnerability tab's dispatch
VulnStep ==
    \/ \E prompt \in VulnPrompts : VulnSubmit(prompt)
    \/ \E res \in VulnResults : VulnAgentDone(res)
\* a step of new-chat, switch, clear or the MITRE dispatch
ThreadStep ==
    \/ NewChat
    \/ \E filename \in history_files(files), rd \in ReadOutcomes :
         SwitchThread(filename, rd)
    \/ \E rm \in {"ok", "fails"}, rd \in ReadOutcomes : ClearThread(rm, rd)
    \/ \E prompt \in Prompts, wr \in WriteOutcomes : MitreSubmit(prompt, wr)
    \/ MitreInvoke
    \/ \E res \in MitreResults, wr \in WriteOutcomes : MitreAgentDone(res, wr)

\* C16: a vulnerability-tab dispatch changes no cached thread sequence, no
\* file and not the active-thread pointer; no file ever holds a text of the
\* vulnerability tab's list; and new-chat, switch, clear and the MITRE
\* dispatch leave the vulnerability tab's list unchanged.
C16_TabsKeepSeparateLists ==
    /\ [](\A p \in DOMAIN files : \A i \in 1..Len(files[p]) :
             files[p][i] \notin VulnTexts)
    /\ [][/\ VulnStep => /\ chat_histories' = chat_histories
                         /\ files' = files
                         /\ current_thread_id' = current_thread_id
          /\ ThreadStep => vuln_messages' = vuln_messages]_vars

C16_Witness ==
    /\ Idle
    /\ Len(vuln_messages) = 2
    /\ ContentOf(vuln_messages[2]) = "fix"
    /\ dispatches > 0
    /\ \E t \in appended : FileHoldsCache(t) /\ Len(chat_histories[t]) = 2

\* while the agent call is in flight the user message ends the active
\* thread's cached sequence and (when saved says so) the file holds that
\* sequence
C17_Waiting(saved) ==
    mitre_state = "AwaitingAgentResponse" =>
        LET t == current_thread_id IN
        /\ LastMessages(chat_histories[t], 1) = <<Msg("user", mitre_prompt)>>
        /\ saved => Persisted(t) = chat_histories[t]
\* the steps of a synchronous pass: nothing but the agent's return ends the
\* wait or touches the session while the call is in flight, the return
\* appends the assistant message after the user message, and no dispatch of
\* either tab starts before the loop is back in Idle
C17_Steps ==
    /\ (mitre_state = "AwaitingAgentResponse" /\ ~MitreAgentReturns) =>
          UNCHANGED <<mitre_state, mitre_prompt, agent_call, chat_histories, files,
                      current_thread_id, dispatches, vuln_state, vuln_messages>>
    /\ (mitre_state = "AwaitingAgentResponse" /\ mitre_state' = "Idle") =>
          LET t == current_thread_id IN
          /\ current_thread_id' = t
          /\ Len(chat_histories'[t]) = Len(chat_histories[t]) + 1
          /\ SubSeq(chat_histories'[t], 1, Len(chat_histories[t])) = chat_histories[t]
          /\ RoleOf(chat_histories'[t][Len(chat_histories'[t])]) = "assistant"
    /\ mitre_state # "Idle" =>
          /\ dispatches' = dispatches
          /\ vuln_state' = vuln_state
          /\ agent_call' # agent_call =>
                \/ mitre_state = "UserMessageRecorded"
                \/ agent_call' = <<>>
    /\ vuln_state # "Idle" => mitre_state' = mitre_state /\ dispatches' = dispatches
\* an accepted prompt leads to Idle with both messages at the end of the
\* thread
C17_Terminates ==
    \A p \in Prompts \ {""} :
        (mitre_state = "UserMessageRecorded" /\ mitre_prompt = p)
           ~> (mitre_state = "Idle" /\ EndsWithExchange(current_thread_id, p))

ListedIds == {thread_id_from_file(filename) : filename \in history_files(files)}
\* the name of t's file in HISTORY_DIR
FileNameOf(t) == SubSeq(FilePath(t), 2, Len(FilePath(t)))
\* the thread ids the session knows of
KnownThreads == DOMAIN chat_histories \cup appended \cup ListedIds
                \cup {DEFAULT_THREAD_ID} \cup {new_thread_id(n) : n \in 1..new_chats}

FileKept(u) ==
    /\ FilePath(u) \in DOMAIN files <=> FilePath(u) \in DOMAIN files'
    /\ FilePath(u) \in DOMAIN files => files'[FilePath(u)] = files[FilePath(u)]
\* u's cache entry is the same before and after a step
EntryKept(u) ==
    /\ u \in DOMAIN chat_histories <=> u \in DOMAIN chat_histories'
    /\ u \in DOMAIN chat_histories => chat_histories'[u] = chat_histories[u]
\* a step of the MITRE dispatch or of the clear handler
DispatchOrClearStep ==
    \/ \E rm \in {"ok", "fails"}, rd \in ReadOutcomes : ClearThread(rm, rd)
    \/ \E prompt \in Prompts, wr \in WriteOutcomes : MitreSubmit(prompt, wr)
    \/ MitreInvoke
    \/ \E res \in MitreResults, wr \in WriteOutcomes : MitreAgentDone(res, wr)

====
